---- MODULE Spec2Model ----
(***************************************************************************)
(* A model of build_blog.py: the frontmatter parser, the date formatting,  *)
(* the post renderer, the listing updater and the build orchestrator.      *)
(*                                                                         *)
(* Text is a sequence of pieces.  A piece is one character ("a", ":",      *)
(* "\n", a quote, a digit ...) or an indivisible chunk of text that holds  *)
(* none of the characters the code looks at: a word such as "title", a     *)
(* template placeholder such as "{{TITLE}}", or an HTML tag such as        *)
(* "</div>".  Date strings are spelled character by character, because the *)
(* code matches digits in them and sorts them by code point.               *)
(***************************************************************************)
EXTENDS Integers, Sequences, FiniteSets, TLC

VARIABLES
    srcFiles,      \* blog_src/*.md on disk: slug (file stem) -> which of the
                   \* Documents the file holds
    templateFile,  \* blog/_template.html on disk
    listingFile,   \* blog/index.html on disk
    pageFiles,     \* blog/<slug>/index.html on disk: slug -> text of the file
    clock,         \* the day datetime.now() reports (days after the first day)
    pc,            \* where main() is
    md_files,      \* main: the files glob() returned that are not yet processed
    cur,           \* main: the locals of the loop body for the file in progress
    posts,         \* main: the Post Records accumulated so far
    run,           \* how many times the build has been started
    hist,          \* history of the current and the first run (for the properties)
    fin,           \* input of the function under test (function specifications)
    fout           \* <<its result>>, or <<>> before it has run

vars == <<srcFiles, templateFile, listingFile, pageFiles, clock, pc, md_files,
          cur, posts, run, hist, fin, fout>>

buildVars == <<srcFiles, templateFile, listingFile, pageFiles, clock, pc,
               md_files, cur, posts, run, hist>>

\* what re.sub's replacement template becomes when re.sub rejects it
Raised == <<"re.error">>

-----------------------------------------------------------------------------
(* Strings                                                                 *)

Q2 == "\""
Q1 == "'"
NL == "\n"

\* The characters str.strip() removes that the model's texts contain.
IsWhitespace(c) == c \in {" ", NL}

\* The characters of the model's date strings in code point order, which is
\* the order Python compares str by.
CodePoints ==
    <<" ", ",", "-", "0", "1", "2", "3", "4", "5", "6", "7", "8", "9",
      "A", "D", "F", "J", "M", "N", "O", "S",
      "a", "b", "c", "e", "g", "h", "i", "l", "m", "n", "o", "p", "r", "s",
      "t", "u", "v", "y">>

Ord(c) == CHOOSE i \in 1..Len(CodePoints) : CodePoints[i] = c

\* a < b for Python str: decided by the first position where they differ,
\* a proper prefix being the smaller
StrLess(a, b) ==
    LET n == IF Len(a) < Len(b) THEN Len(a) ELSE Len(b)
        D == {i \in 1..n : a[i] # b[i]}
    IN  IF D = {} THEN Len(a) < Len(b)
        ELSE LET d == CHOOSE i \in D : \A j \in D : i <= j
             IN  Ord(a[d]) < Ord(b[d])

\* the texts of a sequence joined
RECURSIVE Concat(_)
Concat(ss) ==
    IF Len(ss) = 0 THEN <<>>
    ELSE IF Len(ss) = 1 THEN ss[1]
    ELSE LET h == Len(ss) \div 2
         IN  Concat(SubSeq(ss, 1, h)) \o Concat(SubSeq(ss, h + 1, Len(ss)))

Max(S) == CHOOSE x \in S : \A y \in S : y <= x
Min(S) == CHOOSE x \in S : \A y \in S : x <= y

\* s.lstrip() / s.rstrip() / s.strip() with the set of characters to remove
LStrip(s, cs) ==
    SubSeq(s, Min({i \in 1..Len(s) : s[i] \notin cs} \cup {Len(s) + 1}), Len(s))

RStrip(s, cs) ==
    SubSeq(s, 1, Max({i \in 1..Len(s) : s[i] \notin cs} \cup {0}))

Strip(s, cs) == RStrip(LStrip(s, cs), cs)

Trim(s) == Strip(s, {" ", NL})

\* s.split(sep): the pieces between the occurrences of the character sep
RECURSIVE Split(_, _)
Split(s, sep) ==
    IF \E i \in 1..Len(s) : s[i] = sep
    THEN LET i == CHOOSE k \in 1..Len(s) :
                      s[k] = sep /\ \A j \in 1..(k - 1) : s[j] # sep
         IN  <<SubSeq(s, 1, i - 1)>> \o Split(SubSeq(s, i + 1, Len(s)), sep)
    ELSE <<s>>

\* s.replace(old, new) for a placeholder old that is one piece of the text
Replace(s, old, new) ==
    Concat([i \in 1..Len(s) |-> IF s[i] = old THEN new ELSE <<s[i]>>])

\* dict.get(key, default)
Get(d, key, default) == IF key \in DOMAIN d THEN d[key] ELSE default

\* d[key] = value
Put(d, key, value) ==
    [k \in DOMAIN d \cup {key} |-> IF k = key THEN value ELSE d[k]]

EmptyDict == [k \in {} |-> <<>>]

-----------------------------------------------------------------------------
(* parse_frontmatter                                                       *)

\* "---" at position i
DashesAt(s, i) ==
    i + 2 <= Len(s) /\ s[i] = "-" /\ s[i + 1] = "-" /\ s[i + 2] = "-"

\* how many characters \s* can take from position i
RECURSIVE SpaceRun(_, _)
SpaceRun(s, i) ==
    IF i <= Len(s) /\ IsWhitespace(s[i]) THEN 1 + SpaceRun(s, i + 1) ELSE 0

\* the counts k for which "\s*\n" matches at position i with \s* taking k
\* characters
SpaceThenNewline(s, i) ==
    {k \in 0..(SpaceRun(s, i) - 1) : s[i + k] = NL}

\* "\n---\s*\n" matches at position e
ClosesAt(s, e) ==
    /\ e <= Len(s) /\ s[e] = NL
    /\ DashesAt(s, e + 1)
    /\ SpaceThenNewline(s, e + 4) # {}

\* The counts k for which the opening "---\s*\n", with \s* taking k
\* characters, leaves a match of the rest of the pattern.
OpenCounts(s) ==
    {k \in SpaceThenNewline(s, 4) :
        \E e \in (4 + k + 1)..Len(s) : ClosesAt(s, e)}

\* re.match(r'^---\s*\n(.*?)\n---\s*\n(.*)$', content, re.DOTALL)
FrontmatterMatches(s) == DashesAt(s, 1) /\ OpenCounts(s) # {}

\* group(1) and group(2) of the match: \s* is greedy, (.*?) is lazy
MatchGroups(s) ==
    LET k  == Max(OpenCounts(s))
        g  == 4 + k + 1
        e  == Min({j \in g..Len(s) : ClosesAt(s, j)})
        k2 == Max(SpaceThenNewline(s, e + 4))
    IN  [frontmatter_text |-> SubSeq(s, g, e - 1),
         markdown_content |-> SubSeq(s, e + 4 + k2 + 1, Len(s))]

\* value.strip().strip('"').strip("'")
CleanValue(value) == Strip(Strip(Trim(value), {Q2}), {Q1})

\* one line of the frontmatter applied to the metadata dict
ParseLine(metadata, line) ==
    IF \E i \in 1..Len(line) : line[i] = ":"
    THEN LET i == Min({k \in 1..Len(line) : line[k] = ":"})
         IN  Put(metadata,
                 Trim(SubSeq(line, 1, i - 1)),
                 CleanValue(SubSeq(line, i + 1, Len(line))))
    ELSE metadata

RECURSIVE ParseLines(_, _)
ParseLines(metadata, lines) ==
    IF lines = <<>> THEN metadata
    ELSE ParseLines(ParseLine(metadata, Head(lines)), Tail(lines))

parse_frontmatter(content) ==
    IF FrontmatterMatches(content)
    THEN LET m == MatchGroups(content)
         IN  [metadata |-> ParseLines(EmptyDict, Split(m.frontmatter_text, NL)),
              markdown_content |-> m.markdown_content]
    ELSE [metadata |-> EmptyDict, markdown_content |-> content]

-----------------------------------------------------------------------------
(* Dates: the try block of main (lines 161-166) and of generate_blog_post   *)
(* (lines 70-75), and datetime.now().strftime('%B %d, %Y')                 *)

Digits == <<"0", "1", "2", "3", "4", "5", "6", "7", "8", "9">>

IsDigit(c) == \E i \in 1..10 : Digits[i] = c

DigitValue(c) == (CHOOSE i \in 1..10 : Digits[i] = c) - 1

Number(s) ==
    LET RECURSIVE Value(_)
        Value(n) == IF n = 0 THEN 0 ELSE 10 * Value(n - 1) + DigitValue(s[n])
    IN  Value(Len(s))

MonthNames ==
    <<<<"J", "a", "n", "u", "a", "r", "y">>,
      <<"F", "e", "b", "r", "u", "a", "r", "y">>,
      <<"M", "a", "r", "c", "h">>,
      <<"A", "p", "r", "i", "l">>,
      <<"M", "a", "y">>,
      <<"J", "u", "n", "e">>,
      <<"J", "u", "l", "y">>,
      <<"A", "u", "g", "u", "s", "t">>,
      <<"S", "e", "p", "t", "e", "m", "b", "e", "r">>,
      <<"O", "c", "t", "o", "b", "e", "r">>,
      <<"N", "o", "v", "e", "m", "b", "e", "r">>,
      <<"D", "e", "c", "e", "m", "b", "e", "r">>>>

IsLeap(y) == (y % 4 = 0 /\ y % 100 # 0) \/ y % 400 = 0

DaysIn(y, m) ==
    IF m = 2 THEN (IF IsLeap(y) THEN 29 ELSE 28)
    ELSE IF m \in {4, 6, 9, 11} THEN 30 ELSE 31

\* re.match(r'\d{4}-\d{2}-\d{2}', date): a match at the start of the string,
\* whatever follows it
IsoPrefix(date) ==
    /\ Len(date) >= 10
    /\ \A i \in {1, 2, 3, 4, 6, 7, 9, 10} : IsDigit(date[i])
    /\ date[5] = "-" /\ date[8] = "-"

\* datetime.strptime(date, '%Y-%m-%d') returns instead of raising ValueError:
\* the whole string is one date of the calendar
StrptimeOk(date) ==
    /\ Len(date) = 10
    /\ LET y == Number(SubSeq(date, 1, 4))
           m == Number(SubSeq(date, 6, 7))
           d == Number(SubSeq(date, 9, 10))
       IN  y >= 1 /\ m \in 1..12 /\ d \in 1..DaysIn(y, m)

TwoDigits(n) == <<Digits[(n \div 10) + 1], Digits[(n % 10) + 1]>>

FourDigits(n) == TwoDigits(n \div 100) \o TwoDigits(n % 100)

\* date_obj.strftime('%B %d, %Y'), for the years 1000 to 9999 (%Y of a year
\* below 1000 is padded on some platforms and not on others)
Strftime(y, m, d) ==
    MonthNames[m] \o <<" ">> \o TwoDigits(d) \o <<",", " ">> \o FourDigits(y)

\* lines 161-166 and 70-75: the date as it is shown
FormatDate(date) ==
    IF IsoPrefix(date) /\ StrptimeOk(date)
    THEN Strftime(Number(SubSeq(date, 1, 4)), Number(SubSeq(date, 6, 7)),
                  Number(SubSeq(date, 9, 10)))
    ELSE date

\* The calendar day the clock shows: day 0 is the last day of a year.
FirstDay == [y |-> 2024, m |-> 12, d |-> 31]

NextDay(t) ==
    IF t.d < DaysIn(t.y, t.m) THEN [t EXCEPT !.d = t.d + 1]
    ELSE IF t.m < 12 THEN [t EXCEPT !.m = t.m + 1, !.d = 1]
    ELSE [y |-> t.y + 1, m |-> 1, d |-> 1]

RECURSIVE DayOf(_)
DayOf(n) == IF n = 0 THEN FirstDay ELSE NextDay(DayOf(n - 1))

\* datetime.now().strftime('%B %d, %Y') on day n
NowString(n) == LET t == DayOf(n) IN Strftime(t.y, t.m, t.d)

-----------------------------------------------------------------------------
(* markdown_to_html, generate_blog_post                                    *)

\* The markdown library is not part of the repository: the conversion is a
\* function of the text alone, here the text inside one paragraph.
markdown_to_html(markdown_text) == <<"<p>">> \o markdown_text \o <<"</p>">>

LowerCase == <<"a", "b", "c">>
UpperCase == <<"A", "B", "C">>

IsLetter(c) == \E i \in 1..Len(LowerCase) : c = LowerCase[i] \/ c = UpperCase[i]

ToUpper(c) ==
    IF \E i \in 1..Len(LowerCase) : c = LowerCase[i]
    THEN UpperCase[CHOOSE i \in 1..Len(LowerCase) : c = LowerCase[i]]
    ELSE c

ToLower(c) ==
    IF \E i \in 1..Len(UpperCase) : c = UpperCase[i]
    THEN LowerCase[CHOOSE i \in 1..Len(UpperCase) : c = UpperCase[i]]
    ELSE c

\* str.title(): a letter after a non-letter becomes upper case, any other
\* letter lower case
TitleCase(s) ==
    [i \in 1..Len(s) |->
        IF i = 1 \/ ~IsLetter(s[i - 1]) THEN ToUpper(s[i]) ELSE ToLower(s[i])]

\* slug.replace('-', ' ').title()
DefaultTitle(slug) == TitleCase(Replace(slug, "-", <<" ">>))

KeyTitle == <<"title">>
KeyDescription == <<"description">>
KeyDate == <<"date">>

\* PageDate with the date of the frontmatter ignored
PageDate_AlwaysToday(metadata, today) == NowString(today)

\* lines 67-75: the local date of generate_blog_post, on the day
\* datetime.now() reports at line 67
PageDate(metadata, today) ==
    FormatDate(Get(metadata, KeyDate, NowString(today)))

\* lines 65-83, given the template text read at lines 62-63 and the day
\* datetime.now() reports at line 67
generate_blog_post(metadata, html_content, slug, template, today) ==
    LET title       == Get(metadata, KeyTitle, DefaultTitle(slug))
        description == Get(metadata, KeyDescription, <<>>)
        date        == PageDate(metadata, today)
        html1 == Replace(template, "{{TITLE}}", title)
        html2 == Replace(html1, "{{DESCRIPTION}}", description)
        html3 == Replace(html2, "{{DATE}}", date)
        html4 == Replace(html3, "{{SLUG}}", slug)
    IN  Replace(html4, "{{CONTENT}}", html_content)

-----------------------------------------------------------------------------
(* update_blog_listing                                                     *)

DivOpen == "<div id=\"blog-list\">"
DivClose == "</div>"

\* insertion of x into a list sorted in descending order of date, after the
\* elements that do not sort below it (sorted() is stable, reverse=True
\* keeps the order of equal keys)
RECURSIVE InsertDescending(_, _)
InsertDescending(sorted, x) ==
    IF sorted = <<>> THEN <<x>>
    ELSE IF StrLess(Head(sorted).date, x.date)
         THEN <<x>> \o sorted
         ELSE <<Head(sorted)>> \o InsertDescending(Tail(sorted), x)

\* sorted(posts, key=lambda x: x.get('date', ''), reverse=True)
RECURSIVE SortedPosts(_)
SortedPosts(ps) ==
    IF ps = <<>> THEN <<>>
    ELSE InsertDescending(SortedPosts(SubSeq(ps, 1, Len(ps) - 1)), ps[Len(ps)])

\* <a href="/blog/{slug}/" style="..."> around the slug
LinkOpen == "<a href=\"/blog/"
LinkEnd == "/\">"

\* lines 102-111: the entry of one post
Fragment(post) ==
    <<NL, "<div class=\"view-list-item\">", "<i></i>", LinkOpen>>
    \o post.slug \o <<LinkEnd>> \o post.title
    \o <<"</a>", "<div class=\"article-metadata\">",
         "<span class=\"article-date\">">>
    \o post.date \o <<"</span>", DivClose>>
    \o (IF post.description # <<>>
        THEN <<"<p>">> \o post.description \o <<"</p>">>
        ELSE <<>>)
    \o <<DivClose, NL>>

RECURSIVE Fragments(_)
Fragments(ps) ==
    IF ps = <<>> THEN <<>> ELSE Fragment(Head(ps)) \o Fragments(Tail(ps))

\* lines 91-113
blog_list_html(ps) ==
    IF ps # <<>> THEN Fragments(SortedPosts(ps))
    ELSE <<"<p>No blog posts yet. Check back soon!</p>">>

\* the second argument of re.sub, line 118
Replacement(ps) == <<DivOpen>> \o blog_list_html(ps) \o <<NL, " ", DivClose>>

Backslash == "\\"

\* The pieces of the model's texts that start with an ASCII letter or a
\* digit: after a backslash re.sub rejects them (bad escape, missing <,
\* invalid group reference), except n, which stands for a newline, and 0,
\* which stands for the character of code 0.
RejectedAfterBackslash ==
    ({CodePoints[i] : i \in 5..Len(CodePoints)} \ {"n"})
    \cup {"B", "C", "d", "x", "Hello", "World", "old", "post"}

\* re.sub's processing of the backslashes of its replacement, from one
\* backslash to the next: Raised when the template is rejected
RECURSIVE ExpandTemplate(_)
ExpandTemplate(t) ==
    LET i == Min({k \in 1..Len(t) : t[k] = Backslash} \cup {Len(t) + 1})
    IN  IF i > Len(t) THEN t
        ELSE IF i = Len(t) THEN Raised
        ELSE IF t[i + 1] \in RejectedAfterBackslash THEN Raised
        ELSE LET rest == ExpandTemplate(SubSeq(t, i + 2, Len(t)))
                 this == IF t[i + 1] = Backslash THEN <<Backslash>>
                         ELSE IF t[i + 1] = "n" THEN <<NL>>
                         ELSE IF t[i + 1] = "0" THEN <<"chr(0)">>
                         ELSE <<Backslash, t[i + 1]>>
             IN  IF rest = Raised THEN Raised
                 ELSE SubSeq(t, 1, i - 1) \o this \o rest

\* the first match of r'<div id="blog-list">.*?</div>' (re.DOTALL) in s:
\* the leftmost opening tag that a closing tag follows, up to the nearest
\* closing tag after it
LastClose(s) == Max({j \in 1..Len(s) : s[j] = DivClose} \cup {0})

HasMatch(s) == \E i \in 1..(LastClose(s) - 1) : s[i] = DivOpen

MatchStart(s) == Min({i \in 1..(LastClose(s) - 1) : s[i] = DivOpen})

\* MatchEnd for the greedy pattern .* in place of .*?
MatchEnd_Greedy(s) == LastClose(s)

MatchEnd(s) ==
    Min({j \in (MatchStart(s) + 1)..Len(s) : s[j] = DivClose})

\* re.sub(pattern, repl, s) with the expanded replacement: every match,
\* left to right, the search going on after the end of the match before
RECURSIVE ReSub(_, _)
ReSub(repl, s) ==
    IF HasMatch(s)
    THEN SubSeq(s, 1, MatchStart(s) - 1) \o repl
         \o ReSub(repl, SubSeq(s, MatchEnd(s) + 1, Len(s)))
    ELSE s

\* lines 90-121: whether re.sub raises, and the text update_blog_listing
\* writes back when it does not
update_blog_listing(ps, listing_html) ==
    LET repl == ExpandTemplate(Replacement(ps))
    IN  [raised |-> repl = Raised,
         text   |-> IF repl = Raised THEN listing_html
                    ELSE ReSub(repl, listing_html)]

\* re.sub raises for these posts
ReSubRaises(ps) == ExpandTemplate(Replacement(ps)) = Raised

-----------------------------------------------------------------------------
(* The files of one site                                                   *)

MaxFiles == 2   \* source files in blog_src
MaxRuns == 2    \* builds in a row
MaxDays == 1    \* midnights that pass

\* file stems
SlugNames == <<<<"a">>, <<"b", "-", "c">>, <<"c", "B">>, <<"a", "-", "a">>>>

\* the stems of n source files
Slugs(n) == {SlugNames[i] : i \in 1..n}

Frontmatter(lines, body) ==
    <<"-", "-", "-", NL>> \o lines \o <<"-", "-", "-", NL>> \o body

TitleLine(v) == <<"title", ":", " ">> \o v \o <<NL>>
DateLine(v) == <<"date", ":", " ">> \o v \o <<NL>>
DescriptionLine(v) == <<"description", ":", " ">> \o v \o <<NL>>

March01 == <<"2", "0", "2", "4", "-", "0", "3", "-", "0", "1">>
April01 == <<"2", "0", "2", "4", "-", "0", "4", "-", "0", "1">>
February30 == <<"2", "0", "2", "4", "-", "0", "2", "-", "3", "0">>

\* the texts a source file may hold: no frontmatter; a quoted title, a
\* date and a description; a date alone; a date that is no day of the
\* calendar, with a title that holds a backslash
Documents ==
    << <<"Hello", " ", "World">>,
       Frontmatter(TitleLine(<<Q2, "Hello", Q2>>) \o DateLine(March01)
                   \o DescriptionLine(<<"World">>), <<"post">>),
       Frontmatter(DateLine(April01), <<"post">>),
       Frontmatter(DateLine(February30) \o TitleLine(<<Backslash, "d">>),
                   <<"post">>) >>

\* The source directories: up to MaxFiles files, each holding one of the
\* Documents.  The file names differ in nothing the code looks at but the
\* default title, so of the directories that differ only in which name holds
\* which text, the one with the texts in the order of Documents is kept;
\* glob() still lists the files in any order.
SourceDirectories ==
    UNION {{f \in [Slugs(n) -> 1..Len(Documents)] :
               \A i, j \in 1..n : i < j => f[SlugNames[i]] <= f[SlugNames[j]]}
           : n \in 0..MaxFiles}

\* open(md_file).read()
Content(md_file) == Documents[srcFiles[md_file]]

Template ==
    <<"<h1>", "{{TITLE}}", "</h1>", "{{DESCRIPTION}}", "{{DATE}}",
      "{{SLUG}}", "{{CONTENT}}", "{{TITLE}}">>

\* a listing whose marked region is empty
EmptyListing == <<"<html>", DivOpen, DivClose, "</html>">>

\* the orders glob() may list a set of files in
RECURSIVE Orders(_)
Orders(S) ==
    IF S = {} THEN {<<>>}
    ELSE UNION {{<<x>> \o o : o \in Orders(S \ {x})} : x \in S}

NoCur ==
    [slug |-> <<>>, metadata |-> EmptyDict, title |-> <<>>, date |-> <<>>,
     html_content |-> <<>>, page_date |-> <<>>, post_html |-> <<>>]

NoPages == [k \in {} |-> <<>>]

\* b's entries over a's
Merge(a, b) ==
    [k \in DOMAIN a \cup DOMAIN b |-> IF k \in DOMAIN b THEN b[k] ELSE a[k]]

NoHistory ==
    [listing0 |-> <<>>,      \* the listing when the run started
     order    |-> <<>>,      \* the list glob() returned in this run
     written  |-> NoPages,   \* the pages this run has written
     before   |-> NoPages,   \* the pages when the run started, which are
                             \* the pages the runs before it wrote
     calls    |-> 0,         \* calls of update_blog_listing in this run
     arg      |-> <<>>,      \* the posts the last call received
     failedAt |-> "none",    \* the operation that raised in this run
     first    |-> <<>>,      \* <<the listing after run 1>> once that is written
     started  |-> <<>>]      \* the listing before run 1

-----------------------------------------------------------------------------
(* main                                                                    *)

BuildInit ==
    /\ srcFiles \in SourceDirectories
    /\ templateFile = Template
    /\ listingFile = EmptyListing
    /\ pageFiles = NoPages
    /\ clock = 0
    /\ pc = "idle"
    /\ md_files = <<>>
    /\ cur = NoCur
    /\ posts = <<>>
    /\ run = 0
    /\ hist = [NoHistory EXCEPT !.started = listingFile]

\* AfterGlob without the early return of lines 135-138
AfterGlob_NoEarlyReturn(files) == IF files = <<>> THEN "listing" ELSE "loop"

\* lines 135-140: where main goes after glob()
AfterGlob(files) == IF files = <<>> THEN "done" ELSE "loop"

\* lines 129-140, a new run of the script (the runs are builds in a row:
\* none is started after one that failed)
StartBuild ==
    /\ pc \in {"idle", "done"}
    /\ run < MaxRuns
    /\ \E order \in Orders(DOMAIN srcFiles) :
          /\ md_files' = order
          /\ pc' = AfterGlob(order)
          /\ hist' = [hist EXCEPT !.listing0 = listingFile,
                                  !.order = order,
                                  !.before = Merge(hist.before, hist.written),
                                  !.written = NoPages,
                                  !.calls = 0,
                                  !.arg = <<>>,
                                  !.failedAt = "none"]
    /\ posts' = <<>>
    /\ cur' = NoCur
    /\ run' = run + 1
    /\ UNCHANGED <<srcFiles, templateFile, listingFile, pageFiles, clock,
                   fin, fout>>

\* Abort with the exception swallowed: main goes on to the listing
Abort_Swallowed(where) ==
    /\ pc' = "listing"
    /\ hist' = [hist EXCEPT !.failedAt = where]

\* an unhandled exception ends the run
Abort(where) ==
    /\ pc' = "failed"
    /\ hist' = [hist EXCEPT !.failedAt = where]

\* lines 142-169: read the next file, parse it, title, date, HTML
ReadFile ==
    /\ pc = "loop"
    /\ LET md_file == Head(md_files)
           parsed  == parse_frontmatter(Content(md_file))
       IN  cur' = [slug         |-> md_file,
                   metadata     |-> parsed.metadata,
                   title        |-> Get(parsed.metadata, KeyTitle,
                                        DefaultTitle(md_file)),
                   date         |-> FormatDate(Get(parsed.metadata, KeyDate,
                                                   NowString(clock))),
                   html_content |-> markdown_to_html(parsed.markdown_content),
                   page_date    |-> <<>>,
                   post_html    |-> <<>>]
    /\ pc' = "render"
    /\ UNCHANGED <<srcFiles, templateFile, listingFile, pageFiles, clock,
                   md_files, posts, run, hist, fin, fout>>

\* lines 146-147: open() or read() raises
ReadFileFails ==
    /\ pc = "loop"
    /\ Abort("read source")
    /\ UNCHANGED <<srcFiles, templateFile, listingFile, pageFiles, clock,
                   md_files, cur, posts, run, fin, fout>>

\* line 172: generate_blog_post
Render ==
    /\ pc = "render"
    /\ cur' = [cur EXCEPT
                  !.page_date = PageDate(cur.metadata, clock),
                  !.post_html =
                      generate_blog_post(cur.metadata, cur.html_content,
                                         cur.slug, templateFile, clock)]
    /\ pc' = "write"
    /\ UNCHANGED <<srcFiles, templateFile, listingFile, pageFiles, clock,
                   md_files, posts, run, hist, fin, fout>>

\* lines 62-63: the template cannot be read
ReadTemplateFails ==
    /\ pc = "render"
    /\ Abort("read template")
    /\ UNCHANGED <<srcFiles, templateFile, listingFile, pageFiles, clock,
                   md_files, cur, posts, run, fin, fout>>

\* lines 186-191
PostRecord(c) ==
    [slug |-> c.slug, title |-> c.title, date |-> c.date,
     description |-> Get(c.metadata, KeyDescription, <<>>)]

\* AfterFile with update_blog_listing called from inside the loop
AfterFile_ListingInLoop(rest) == "listing"

\* where main goes after a file: line 142, line 195
AfterFile(rest) == IF rest = <<>> THEN "listing" ELSE "loop"

\* lines 175-191: write blog/<slug>/index.html, keep the Post Record
WritePage ==
    /\ pc = "write"
    /\ pageFiles' = Put(pageFiles, cur.slug, cur.post_html)
    /\ posts' = Append(posts, PostRecord(cur))
    /\ md_files' = Tail(md_files)
    /\ pc' = AfterFile(Tail(md_files))
    /\ hist' = [hist EXCEPT !.written = Put(hist.written, cur.slug, cur.post_html)]
    /\ UNCHANGED <<srcFiles, templateFile, listingFile, clock, cur, run,
                   fin, fout>>

\* lines 176-181: mkdir() or open() raises and the page is as it was, or
\* write() raises after open() has emptied the page
WritePageFails ==
    /\ pc = "write"
    /\ \/ pageFiles' = pageFiles
       \/ pageFiles' = Put(pageFiles, cur.slug, <<>>)
    /\ Abort("write page")
    /\ UNCHANGED <<srcFiles, templateFile, listingFile, clock, md_files, cur,
                   posts, run, fin, fout>>

\* line 195 with lines 85-124: the call of update_blog_listing that returns
UpdateListing ==
    /\ pc = "listing"
    /\ LET r == update_blog_listing(posts, listingFile)
       IN  /\ ~r.raised
           /\ listingFile' = r.text
           /\ hist' = [hist EXCEPT
                          !.calls = hist.calls + 1,
                          !.arg = posts,
                          !.first = IF run = 1 THEN <<r.text>> ELSE hist.first]
    /\ pc' = "done"
    /\ UNCHANGED <<srcFiles, templateFile, pageFiles, clock, md_files, cur,
                   posts, run, fin, fout>>

\* lines 87-88: the listing cannot be read
ReadListingFails ==
    /\ pc = "listing"
    /\ pc' = "failed"
    /\ hist' = [hist EXCEPT !.calls = hist.calls + 1, !.arg = posts,
                            !.failedAt = "read listing"]
    /\ UNCHANGED <<srcFiles, templateFile, listingFile, pageFiles, clock,
                   md_files, cur, posts, run, fin, fout>>

\* lines 116-121: re.sub rejects the replacement
ReplaceRaises ==
    /\ pc = "listing"
    /\ ReSubRaises(posts)
    /\ pc' = "failed"
    /\ hist' = [hist EXCEPT !.calls = hist.calls + 1, !.arg = posts,
                            !.failedAt = "re.sub"]
    /\ UNCHANGED <<srcFiles, templateFile, listingFile, pageFiles, clock,
                   md_files, cur, posts, run, fin, fout>>

\* lines 123-124: open() raises and the listing is as it was, or write()
\* raises after open() has emptied it
WriteListingFails ==
    /\ pc = "listing"
    /\ ~ReSubRaises(posts)
    /\ \/ listingFile' = listingFile
       \/ listingFile' = <<>>
    /\ pc' = "failed"
    /\ hist' = [hist EXCEPT !.calls = hist.calls + 1, !.arg = posts,
                            !.failedAt = "write listing"]
    /\ UNCHANGED <<srcFiles, templateFile, pageFiles, clock, md_files, cur,
                   posts, run, fin, fout>>

\* midnight; the clock is read at line 159 and at line 67, so a midnight
\* at any other moment is one before the next of these
Tick ==
    /\ pc \in {"loop", "render"}
    /\ clock < MaxDays
    /\ clock' = clock + 1
    /\ UNCHANGED <<srcFiles, templateFile, listingFile, pageFiles, pc,
                   md_files, cur, posts, run, hist, fin, fout>>

Init == BuildInit /\ fin = <<>> /\ fout = <<>>

Next ==
    \/ StartBuild
    \/ ReadFile
    \/ ReadFileFails
    \/ Render
    \/ ReadTemplateFails
    \/ WritePage
    \/ WritePageFails
    \/ UpdateListing
    \/ ReadListingFails
    \/ ReplaceRaises
    \/ WriteListingFails
    \/ Tick

Spec == Init /\ [][Next]_vars

-----------------------------------------------------------------------------
(* Properties of the build (Spec)                                          *)

\* the frontmatter of a source file
Metadata(slug) == parse_frontmatter(Content(slug)).metadata

HasDate(slug) == KeyDate \in DOMAIN Metadata(slug)

\* a date string that is one day of the calendar, written YYYY-MM-DD
IsIsoDate(date) == IsoPrefix(date) /\ StrptimeOk(date)

\* the day a is after the day b
Later(a, b) ==
    LET ya == Number(SubSeq(a, 1, 4))  yb == Number(SubSeq(b, 1, 4))
        ma == Number(SubSeq(a, 6, 7))  mb == Number(SubSeq(b, 6, 7))
        da == Number(SubSeq(a, 9, 10)) db == Number(SubSeq(b, 9, 10))
    IN  \/ ya > yb
        \/ ya = yb /\ ma > mb
        \/ ya = yb /\ ma = mb /\ da > db

\* the places of the listing where the entry of a slug starts
EntryPositions(slug) ==
    {i \in 1..Len(listingFile) :
        /\ listingFile[i] = LinkOpen
        /\ i + Len(slug) + 1 <= Len(listingFile)
        /\ SubSeq(listingFile, i + 1, i + Len(slug)) = slug
        /\ listingFile[i + Len(slug) + 1] = LinkEnd}

\* C1: in the listing a build has written, of two posts whose frontmatter
\* dates are valid ISO dates the one with the later date comes first.
C1_NewestFirst ==
    (pc = "done" /\ hist.calls = 1) =>
        \A p, q \in DOMAIN srcFiles :
            (/\ HasDate(p) /\ HasDate(q)
             /\ IsIsoDate(Metadata(p)[KeyDate])
             /\ IsIsoDate(Metadata(q)[KeyDate])
             /\ Later(Metadata(p)[KeyDate], Metadata(q)[KeyDate]))
            => /\ EntryPositions(p) # {} /\ EntryPositions(q) # {}
               /\ Min(EntryPositions(p)) < Min(EntryPositions(q))

\* C2: with no *.md file a build leaves the listing as it was, writes no
\* page, does not call update_blog_listing and ends without an error.
C2_NoSourceFilesNoOp ==
    (run >= 1 /\ DOMAIN srcFiles = {}) =>
        /\ pc = "done"
        /\ hist.failedAt = "none"
        /\ hist.calls = 0
        /\ listingFile = hist.started
        /\ pageFiles = NoPages

C2_Witness == run >= 1 /\ DOMAIN srcFiles = {} /\ pc = "done"

\* C5: a page a build writes for a post with a date in its frontmatter is
\* the page the builds before it wrote for that slug, whatever the order the
\* files are listed in, the day, and the listing.
C5_RebuildSamePages ==
    \A slug \in DOMAIN hist.written :
        /\ pageFiles[slug] = hist.written[slug]
        /\ (slug \in DOMAIN hist.before /\ HasDate(slug))
           => hist.written[slug] = hist.before[slug]

C5_Witness ==
    /\ run >= 2 /\ clock >= 1
    /\ listingFile # hist.started
    /\ \E slug \in DOMAIN hist.written :
          slug \in DOMAIN hist.before /\ HasDate(slug)

\* the long form of the dates of the Documents
LongMarch01 ==
    <<"M", "a", "r", "c", "h", " ", "0", "1", ",", " ", "2", "0", "2", "4">>
LongApril01 ==
    <<"A", "p", "r", "i", "l", " ", "0", "1", ",", " ", "2", "0", "2", "4">>

ExpectedDate(date) ==
    IF date = March01 THEN LongMarch01
    ELSE IF date = April01 THEN LongApril01
    ELSE date

\* C7: once main has the Post Record's date and generate_blog_post has
\* rendered the page, both hold the same date string: the long form of a
\* valid ISO date of the frontmatter, any other date of the frontmatter as it
\* is.
C7_SameFormattedDate ==
    pc = "write" =>
        /\ cur.date = cur.page_date
        /\ KeyDate \in DOMAIN cur.metadata
           => cur.date = ExpectedDate(cur.metadata[KeyDate])

\* the part of C7 that is about the dates of the frontmatter
C7_FrontmatterDates ==
    (pc = "write" /\ KeyDate \in DOMAIN cur.metadata) =>
        /\ cur.date = cur.page_date
        /\ cur.date = ExpectedDate(cur.metadata[KeyDate])

\* the files of this run that were finished before the one in progress
Finished == {hist.order[i] : i \in 1..(Len(hist.order) - Len(md_files))}

\* the files of this run that come after the one in progress
Later_files ==
    {hist.order[i] : i \in (Len(hist.order) - Len(md_files) + 2)..Len(hist.order)}

\* the page of a slug is as it was when the run started
Untouched(slug) ==
    IF slug \in DOMAIN hist.before
    THEN slug \in DOMAIN pageFiles /\ pageFiles[slug] = hist.before[slug]
    ELSE slug \notin DOMAIN pageFiles

\* C8: an operation that raises ends the run.  When it is the read of a
\* source file or of the template, or the write of a page, the pages of the
\* files before it are on disk as written, no later file has been processed
\* and the listing is as it was; when it is the read of the listing, every
\* page is on disk as written.
C8_FailFast ==
    /\ hist.failedAt # "none" => pc = "failed"
    /\ hist.failedAt \in {"read source", "read template", "write page"} =>
          /\ listingFile = hist.listing0
          /\ hist.calls = 0
          /\ Len(posts) = Cardinality(Finished)
          /\ \A slug \in Finished :
                /\ slug \in DOMAIN hist.written
                /\ pageFiles[slug] = hist.written[slug]
          /\ \A slug \in Later_files :
                slug \notin DOMAIN hist.written /\ Untouched(slug)
    /\ hist.failedAt = "read listing" =>
          /\ listingFile = hist.listing0
          /\ \A slug \in DOMAIN srcFiles :
                /\ slug \in DOMAIN hist.written
                /\ pageFiles[slug] = hist.written[slug]

C8_Witness ==
    /\ pc = "failed" /\ hist.failedAt = "write page"
    /\ Finished # {}
    /\ run >= 2

\* how many entries the listing holds
Entries == Cardinality({i \in 1..Len(listingFile) : listingFile[i] = LinkOpen})

AllDated == \A slug \in DOMAIN srcFiles : HasDate(slug)

\* C9: after a second or later build of the same dated posts, from a listing
\* whose region was empty, the listing is the listing the first build left,
\* with one entry for each post.
C9_RebuildSameListing ==
    (/\ pc = "done" /\ run >= 2 /\ DOMAIN srcFiles # {}
     /\ hist.started = EmptyListing /\ AllDated /\ hist.first # <<>>)
    => /\ listingFile = hist.first[1]
       /\ Entries = Cardinality(DOMAIN srcFiles)

\* C10: update_blog_listing is called at most once in a run, once when a run
\* with source files ends without an error, after every page has been
\* written, with one Post Record for each source file; the files are
\* processed one at a time, every file read before the one in progress
\* having its page written.
C10_ListingOnceAfterAllPages ==
    /\ hist.calls <= 1
    /\ (pc = "done" /\ DOMAIN srcFiles # {}) => hist.calls = 1
    /\ hist.calls = 1 =>
          /\ pc \in {"done", "failed"}
          /\ DOMAIN hist.written = DOMAIN srcFiles
          /\ Len(hist.arg) = Cardinality(DOMAIN srcFiles)
          /\ {hist.arg[i].slug : i \in 1..Len(hist.arg)} = DOMAIN srcFiles
          /\ \A slug \in DOMAIN srcFiles :
                pageFiles[slug] = hist.written[slug]
    /\ pc \in {"loop", "render", "write"} =>
          /\ DOMAIN hist.written = Finished
          /\ {posts[i].slug : i \in 1..Len(posts)} = Finished
          /\ Len(posts) = Cardinality(Finished)
    /\ pc \in {"render", "write"} => cur.slug = Head(md_files)

C10_Witness ==
    /\ pc = "done" /\ hist.calls = 1 /\ run >= 2
    /\ Len(hist.arg) >= 2

-----------------------------------------------------------------------------
(* The functions on their own: one call with an input of a bounded set     *)

MaxDocLen == 5       \* pieces of a listing document
MaxTemplateLen == 2  \* pieces of a template
MaxValueLen == 4     \* characters after "title:" in a frontmatter line

\* the texts of up to n pieces of the set P
Texts(P, n) == UNION {[1..k -> P] : k \in 0..n}

\* no build is running
BuildIdle ==
    /\ srcFiles = [k \in {} |-> 1]
    /\ templateFile = <<>>
    /\ listingFile = <<>>
    /\ pageFiles = NoPages
    /\ clock = 0
    /\ pc = "idle"
    /\ md_files = <<>>
    /\ cur = NoCur
    /\ posts = <<>>
    /\ run = 0
    /\ hist = NoHistory

(* update_blog_listing *)

PostHello ==
    [slug |-> <<"a">>, title |-> <<"Hello">>, date |-> LongMarch01,
     description |-> <<"World">>]

\* a title that holds two backslashes, an n, a backslash and an n
PostBackslashes ==
    [slug |-> <<"b", "-", "c">>,
     title |-> <<Backslash, Backslash, "n", Backslash, "n">>,
     date |-> LongApril01, description |-> <<>>]

\* a title that holds a backslash and a d
PostBadEscape ==
    [slug |-> <<"c", "B">>, title |-> <<Backslash, "d">>,
     date |-> February30, description |-> <<>>]

PostLists ==
    {<<>>, <<PostHello>>, <<PostHello, PostBackslashes>>, <<PostBadEscape>>}

ListingInit ==
    /\ BuildIdle
    /\ fin \in [posts : PostLists,
                listing : Texts({DivOpen, DivClose, "x"}, MaxDocLen)]
    /\ fout = <<>>

CallUpdateListing ==
    /\ fout = <<>>
    /\ fout' = <<update_blog_listing(fin.posts, fin.listing)>>
    /\ UNCHANGED <<buildVars, fin>>

SpecListing == ListingInit /\ [][CallUpdateListing]_vars

\* position p of doc starts a replaced span: an opening tag that a closing
\* tag follows, with no opening tag between the closing tag before it (or
\* the start of the document) and it
StartsSpan(doc, p) ==
    /\ doc[p] = DivOpen
    /\ \E j \in (p + 1)..Len(doc) : doc[j] = DivClose
    /\ LET c == Max({j \in 1..(p - 1) : doc[j] = DivClose} \cup {0})
       IN  \A i \in (c + 1)..(p - 1) : doc[i] # DivOpen

\* position p of doc is inside a replaced span, up to its closing tag
InSpan(doc, p) ==
    /\ \E j \in p..Len(doc) : doc[j] = DivClose
    /\ \E i \in 1..(p - 1) :
          doc[i] = DivOpen /\ \A k \in i..(p - 1) : doc[k] # DivClose

\* C3, amended: update_blog_listing replaces every span that starts at a
\* `<div id="blog-list">` outside the spans before it and extends to the
\* nearest `</div>` after it, each by the new region as re.sub expands it,
\* and keeps every other piece of the document; when re.sub rejects the
\* region nothing is replaced.
C3_EveryNearestSpanReplaced ==
    fout # <<>> =>
        LET doc    == fin.listing
            region == ExpandTemplate(Replacement(fin.posts))
        IN  IF fout[1].raised THEN fout[1].text = doc
            ELSE fout[1].text =
                    Concat([p \in 1..Len(doc) |->
                               IF StartsSpan(doc, p) THEN region
                               ELSE IF InSpan(doc, p) THEN <<>>
                               ELSE <<doc[p]>>])

\* two spans are replaced and a `</div>` after the first is kept
C3_Witness ==
    /\ fout # <<>> /\ ~fout[1].raised
    /\ fin.posts = <<PostHello, PostBackslashes>>
    /\ fin.listing = <<DivOpen, DivClose, DivClose, DivOpen, DivClose>>
    /\ fout[1].text # fin.listing

\* C3: update_blog_listing replaces one span, from the first
\* `<div id="blog-list">` to the last `</div>` after it, by the new region
\* wrapping the assembled fragments, and nothing else.
C3_FirstToLastSpanReplaced ==
    (fout # <<>> /\ ~fout[1].raised) =>
        LET doc == fin.listing
            O   == {i \in 1..Len(doc) : doc[i] = DivOpen}
        IN  IF O # {} /\ \E j \in (Min(O) + 1)..Len(doc) : doc[j] = DivClose
            THEN fout[1].text =
                    SubSeq(doc, 1, Min(O) - 1) \o Replacement(fin.posts)
                    \o SubSeq(doc,
                              Max({j \in 1..Len(doc) : doc[j] = DivClose}) + 1,
                              Len(doc))
            ELSE fout[1].text = doc

(* generate_blog_post *)

Placeholders ==
    {"{{TITLE}}", "{{DESCRIPTION}}", "{{DATE}}", "{{SLUG}}", "{{CONTENT}}"}

\* the metadata with the keys that have a value
Dict(title, description, date) ==
    [k \in {x \in {KeyTitle, KeyDescription, KeyDate} :
               \/ x = KeyTitle /\ title # <<>>
               \/ x = KeyDescription /\ description # <<>>
               \/ x = KeyDate /\ date # <<>>}
       |-> IF k = KeyTitle THEN title
           ELSE IF k = KeyDescription THEN description ELSE date]

RenderInit ==
    /\ BuildIdle
    /\ fin \in [template : Texts(Placeholders \cup {"x"}, MaxTemplateLen),
                title : {<<>>, <<"Hello">>, <<"{{CONTENT}}">>, <<"{{TITLE}}">>},
                description : {<<>>, <<"{{DATE}}">>},
                date : {March01},
                html_content : {<<"<p>", "post", "</p>">>, <<"{{SLUG}}">>},
                slug : {<<"b", "-", "c">>}]
    /\ fout = <<>>

CallGenerateBlogPost ==
    /\ fout = <<>>
    /\ fout' = <<generate_blog_post(
                    Dict(fin.title, fin.description, fin.date),
                    fin.html_content, fin.slug, fin.template, 0)>>
    /\ UNCHANGED <<buildVars, fin>>

SpecRender == RenderInit /\ [][CallGenerateBlogPost]_vars

\* C4: the page is the template with every placeholder replaced by its
\* value as it is, a placeholder inside a value staying as text.
C4_PlaceholdersReplacedVerbatim ==
    fout # <<>> =>
        LET metadata == Dict(fin.title, fin.description, fin.date)
            Value(piece) ==
                IF piece = "{{TITLE}}"
                THEN Get(metadata, KeyTitle, DefaultTitle(fin.slug))
                ELSE IF piece = "{{DESCRIPTION}}"
                THEN Get(metadata, KeyDescription, <<>>)
                ELSE IF piece = "{{DATE}}" THEN PageDate(metadata, 0)
                ELSE IF piece = "{{SLUG}}" THEN fin.slug
                ELSE IF piece = "{{CONTENT}}" THEN fin.html_content
                ELSE <<piece>>
        IN  fout[1] = Concat([i \in 1..Len(fin.template) |->
                                 Value(fin.template[i])])

(* parse_frontmatter *)

ParseInit ==
    /\ BuildIdle
    /\ fin \in Texts({Q2, Q1, "a", " "}, MaxValueLen)
    /\ fout = <<>>

CallParseFrontmatter ==
    /\ fout = <<>>
    /\ fout' = <<parse_frontmatter(
                    Frontmatter(<<"title", ":">> \o fin \o <<NL>>, <<"post">>))>>
    /\ UNCHANGED <<buildVars, fin>>

SpecParse == ParseInit /\ [][CallParseFrontmatter]_vars

\* the value is wrapped in a pair of single or of double quotes
Quoted(v) == Len(v) >= 2 /\ v[1] \in {Q1, Q2} /\ v[Len(v)] = v[1]

\* C6: a trimmed value wrapped in a pair of quotes loses that pair and
\* nothing else: the quotes inside the pair are kept.
C6_OneQuoteLayerStripped ==
    (fout # <<>> /\ Quoted(Trim(fin))) =>
        /\ KeyTitle \in DOMAIN fout[1].metadata
        /\ fout[1].metadata[KeyTitle] = SubSeq(Trim(fin), 2, Len(Trim(fin)) - 1)

(* the date formatting *)

DateStrings ==
    {y \o <<"-">> \o m \o <<"-">> \o d \o t :
        y \in {<<"1", "9", "0", "0">>, <<"2", "0", "0", "0">>,
               <<"2", "0", "2", "3">>, <<"2", "0", "2", "4">>},
        m \in {<<"0", "0">>, <<"0", "2">>, <<"0", "4">>, <<"1", "2">>,
               <<"1", "3">>},
        d \in {<<"0", "0">>, <<"0", "5">>, <<"2", "8">>, <<"2", "9">>,
               <<"3", "0">>, <<"3", "1">>, <<"3", "2">>},
        t \in {<<>>, <<"5">>, <<" ", "n", "o", "o", "n">>}}
    \cup {<<>>, <<"s", "o", "o", "n">>, LongMarch01,
          <<"2", "0", "2", "4", "-", "3", "-", "5">>,
          <<"0", "5", "-", "0", "3", "-", "2", "0", "2", "4">>}

DateInit ==
    /\ BuildIdle
    /\ fin \in DateStrings
    /\ fout = <<>>

CallFormatDate ==
    /\ fout = <<>>
    /\ fout' = <<FormatDate(fin)>>
    /\ UNCHANGED <<buildVars, fin>>

SpecDate == DateInit /\ [][CallFormatDate]_vars

\* the numbers a two-digit and a four-digit text stand for
TwoDigitTexts == [n \in 0..99 |-> TwoDigits(n)]

\* YYYY-MM-DD and nothing else, MM a month and DD a day of that month
OneCalendarDay(date) ==
    /\ Len(date) = 10
    /\ \E y \in {1900, 2000, 2023, 2024}, m \in 1..12, d \in 1..31 :
          /\ date = FourDigits(y) \o <<"-">> \o TwoDigitTexts[m] \o <<"-">>
                    \o TwoDigitTexts[d]
          /\ d <= IF m = 2 THEN (IF y \in {2000, 2024} THEN 29 ELSE 28)
                  ELSE IF m \in {4, 6, 9, 11} THEN 30 ELSE 31

\* the part of C7 that is about one date string: a valid ISO date becomes
\* 'Month DD, YYYY', any other string is left as it is.
C7_FormatOutcomes ==
    fout # <<>> =>
        IF OneCalendarDay(fin)
        THEN fout[1] = MonthNames[Number(SubSeq(fin, 6, 7))] \o <<" ">>
                       \o SubSeq(fin, 9, 10) \o <<",", " ">> \o SubSeq(fin, 1, 4)
        ELSE fout[1] = fin

====
